---------------------------- MODULE Spec2Model ----------------------------
(***************************************************************************)
(* A model of GitReader (src/src/git-reader.c): the runner that spawns     *)
(* git, watches its stdout and stderr pipes and its exit from the GLib     *)
(* main loop, and emits "completed" once.                                  *)
(*                                                                         *)
(* The program state is the GitReaderPrivate struct.  Around it are the    *)
(* parts of the operating system and of the GLib main loop the code talks  *)
(* to (the process table, the armed sources, the pipes), and history       *)
(* variables that record what was emitted and which callbacks ran.         *)
(*                                                                         *)
(* Every C function is an operator from a world record to a world record,  *)
(* so that a callback which calls check_complete, which calls              *)
(* close_process and emits the signal, whose handler may call start, is    *)
(* one atomic action, as it is on the single-threaded main loop.           *)
(***************************************************************************)
EXTENDS Integers, Sequences, FiniteSets

(* ------------------------------ bounds -------------------------------- *)

\* calls of git_reader_start in one behaviour (each call gets the next id)
MaxStarts == 2
\* length of the generated stderr texts
MaxErrLen == 2

(* ---------------------------- data values ------------------------------ *)

\* sizeof (buf) in both read callbacks
BufSize == 512

\* the wait status of a child killed by SIGTERM
SIGTERM == 15

Min(a, b) == IF a < b THEN a ELSE b

\* the characters of the generated stderr texts
ErrAlphabet == {"x", " "}

\* isspace() in the C locale on the characters used here
isspace(c) == c \in {" ", "\t", "\n", "\r", "\f"}

SeqsUpTo(S, n) == UNION {[1..k -> S] : k \in 0..n}

\* the stderr text of the example: "fatal: bad object\n   "
FatalBadObject ==
  <<"f","a","t","a","l",":"," ","b","a","d"," ","o","b","j","e","c","t","\n"," "," "," ">>

\* what a child may write to stderr, and to stdout
ErrInputs == SeqsUpTo(ErrAlphabet, MaxErrLen) \cup {FatalBadObject}
OutInputs == {<< >>, <<"a", "b">>}

\* the exit codes a child ends with, and the wait status of an exit code
ExitCodes == {0, 1}
W_EXITCODE(code) == code * 256

\* "Error invoking git: " and "Error invoking git"
MsgGeneric ==
  <<"E","r","r","o","r"," ","i","n","v","o","k","i","n","g"," ","g","i","t">>
MsgPrefix == MsgGeneric \o <<":", " ">>

\* the strings put before and after a chunk of the child's stdout
GotStdoutOpen == <<"g","o","t"," ","s","t","d","o","u","t",":"," ","\"">>
GotStdoutClose == <<"\"","\n">>

NoError == [code |-> "NULL", message |-> << >>]
IoError == [code |-> "G_IO_CHANNEL_ERROR", message |-> <<"i","o">>]
ExitStatusError(msg) == [code |-> "GIT_ERROR_EXIT_STATUS", message |-> msg]

(* ------------------------------ ids ------------------------------------ *)

\* The n-th call of git_reader_start is invocation n; its child, if spawned,
\* has pid n, and its three sources have the ids below (GLib hands out
\* fresh non-zero ids; only their distinctness matters).
Invs == 1..MaxStarts
WATCH == 1
STDOUT == 2
STDERR == 3
SrcId(inv, kind) == 3 * (inv - 1) + kind
SrcInv(id) == ((id - 1) \div 3) + 1
SrcKind(id) == ((id - 1) % 3) + 1

(* ----------------------------- variables ------------------------------- *)

\* The state is one record: the fields of struct _GitReaderPrivate, then the
\* operating system and the GLib main loop, then the history.
VARIABLES st

vars == <<st>>

\* struct _GitReaderPrivate
has_child == st.has_child
child_pid == st.child_pid
child_stdout == st.child_stdout
child_stderr == st.child_stderr
child_watch_source == st.child_watch_source
child_stdout_source == st.child_stdout_source
child_stderr_source == st.child_stderr_source
child_exit_code == st.child_exit_code
error_string == st.error_string

\* operating system and GLib main loop
\* calls of git_reader_start so far
nStart == st.nStart
\* pid -> "none" | "running" | "zombie" | "collected" | "reaped"
proc == st.proc
\* pid -> the wait status of a child that has exited
waitStatus == st.waitStatus
\* ids of the sources attached to the main loop
armed == st.armed
\* ids of the sources' channels that are not shut down
chanOpen == st.chanOpen
\* has the current child's output been decided
written == st.written
\* what the current child writes to stdout, stderr
outData == st.outData
errData == st.errData
\* the part of it not yet read
outLeft == st.outLeft
errLeft == st.errLeft
\* "again": the last step was a read that reported AGAIN;
\* "stop": it was a stop of a reader that held nothing
quiet == st.quiet
\* <<pid, state of the process>> for every kill() of the last step
signalled == st.signalled
\* children of this reader still unreaped at a later spawn
overlap == st.overlap
\* what the stdout callback has written to the process's standard output,
\* one element for every fputs and fwrite
sink == st.sink
\* the calls git_reader_close_process made in the last step, in order:
\* [op, arg, ret]
closeCalls == st.closeCalls
\* the source whose read has reported an error in the last step, or 0
read_error == st.read_error
\* what git_reader_start returned in the last step: "TRUE", "FALSE", or
\* "none" when the step did not call it
start_ret == st.start_ret

\* history
\* invocation -> number of "completed" emissions
emitted == st.emitted
\* <<invocation, "stop" | "start">>: torn down by a stop or a further start
torn == st.torn
\* <<invocation, why>> for a callback dispatched too late
late == st.late
\* the signals of the current invocation, in arrival order
recorded == st.recorded
\* the emission of the last step, or NoEmit
lastEmit == st.lastEmit

\* the fields of GitReaderPrivate
privVars == <<has_child, child_pid, child_stdout, child_stderr,
              child_watch_source, child_stdout_source, child_stderr_source,
              child_exit_code, error_string>>

World == st

\* The pipes of an invocation the reader has let go are gone with what was in
\* them, a collected status whose watch is removed is dropped, and the wait
\* status of a reaped child is no more once its invocation is let go.
Forget(w) ==
  LET idle == ~w.has_child
      pr == [p \in Invs |->
               IF w.proc[p] = "collected" /\ (3 * (p - 1) + 1) \notin w.armed
                 THEN "reaped" ELSE w.proc[p]]
  IN [w EXCEPT
        !.written = IF idle THEN FALSE ELSE @,
        !.outData = IF idle THEN << >> ELSE @,
        !.errData = IF idle THEN << >> ELSE @,
        !.outLeft = IF idle THEN << >> ELSE @,
        !.errLeft = IF idle THEN << >> ELSE @,
        !.sink = IF idle THEN << >> ELSE @,
        !.recorded = IF idle THEN << >> ELSE @,
        !.proc = pr,
        !.waitStatus = [p \in Invs |->
                          IF pr[p] \in {"none", "reaped"}
                             /\ (idle \/ p # w.nStart)
                            THEN 0 ELSE w.waitStatus[p]]]

Commit(v) == st' = Forget(v)

\* An emission: the invocation, the path ("join" or "ioerror"), the kind of
\* the source whose callback emits, the error, and the world at the moment
\* the handler is called: the signals recorded, the child's wait status and
\* output, has_child and child_pid, the state of the child and which of the
\* invocation's sources are attached and channels open.
NoEmit ==
  [inv |-> 0, path |-> "none", by |-> 0, error |-> NoError,
   recorded |-> << >>, status |-> 0, stderr |-> << >>,
   stdout |-> << >>, sink |-> << >>, held |-> FALSE,
   pid |-> 0, child |-> "none", armed |-> {}, open |-> {}]

\* git_reader_init: an empty error string, every other field zeroed
Init ==
  st = [has_child |-> FALSE, child_pid |-> 0,
        child_stdout |-> 0, child_stderr |-> 0,
        child_watch_source |-> 0,
        child_stdout_source |-> 0, child_stderr_source |-> 0,
        child_exit_code |-> 0, error_string |-> << >>,
        nStart |-> 0,
        proc |-> [p \in Invs |-> "none"],
        waitStatus |-> [p \in Invs |-> 0],
        armed |-> {}, chanOpen |-> {}, written |-> FALSE,
        outData |-> << >>, errData |-> << >>,
        outLeft |-> << >>, errLeft |-> << >>,
        quiet |-> "none", signalled |-> {}, overlap |-> {}, sink |-> << >>,
        start_ret |-> "none", closeCalls |-> << >>, read_error |-> 0,
        emitted |-> [i \in Invs |-> 0], torn |-> {}, late |-> {},
        recorded |-> << >>, lastEmit |-> NoEmit]

(* --------------------- GLib and the operating system ------------------- *)

\* F applied to the value of x: the statements of F run on the world that
\* the statements before them have left
Then(x, F(_)) == CHOOSE r \in {F(v) : v \in {x}} : TRUE

\* g_source_remove: detaches the source; an id that names no source is ignored
g_source_remove(w, id) == [w EXCEPT !.armed = @ \ {id}]

\* g_io_channel_shutdown and g_io_channel_unref of the channel of source id
g_io_channel_shutdown(w, id) == [w EXCEPT !.chanOpen = @ \ {id}]

\* waitpid (pid, &status, WNOHANG): a zombie is reaped (returns pid), a
\* running child gives 0, a child already reaped gives -1 (ECHILD)
waitpid_nohang_ret(w, pid) ==
  CASE w.proc[pid] = "zombie" -> pid
    [] w.proc[pid] = "running" -> 0
    [] OTHER -> -1

\* waitpid (pid, &status, 0): returns pid once the child has exited, -1
\* (ECHILD) for a child already reaped; 0 stands for a call that does not
\* return because the child runs on
waitpid_block_ret(w, pid) ==
  CASE w.proc[pid] = "zombie" -> pid
    [] w.proc[pid] = "running" -> 0
    [] OTHER -> -1

\* the reaping either waitpid does
waitpid_reap(w, pid) ==
  IF w.proc[pid] = "zombie" THEN [w EXCEPT !.proc[pid] = "reaped"] ELSE w

\* kill (pid, SIGTERM): a running child dies of the signal; the state of the
\* process at the time of the call is remembered
kill(w, pid) ==
  [w EXCEPT !.signalled = @ \cup {<<pid, w.proc[pid]>>},
            !.proc[pid] = IF @ = "running" THEN "zombie" ELSE @,
            !.waitStatus[pid] = IF w.proc[pid] = "running" THEN SIGTERM ELSE @]

(* --------------------------- git-reader.c ------------------------------ *)

\* a call made by git_reader_close_process is noted with what it returned
Call(w, op, arg, ret) ==
  [w EXCEPT !.closeCalls = Append(@, [op |-> op, arg |-> arg, ret |-> ret])]

\* KillChild without the kill and the blocking wait of lines 113-120
KillChild_NoKill(w0) ==
  Then(Call(g_source_remove(w0, w0.child_watch_source),
            "g_source_remove", w0.child_watch_source, 1), LAMBDA w :
    Call(waitpid_reap(w, w.child_pid),
         "waitpid_WNOHANG", w.child_pid, waitpid_nohang_ret(w, w.child_pid)))

\* KillChild without the non-blocking wait of lines 108-110 and the test
\* of line 113
KillChild_AlwaysKill(w0) ==
  Then(Call(g_source_remove(w0, w0.child_watch_source),
            "g_source_remove", w0.child_watch_source, 1), LAMBDA w :
    Then(Call(kill(w, w.child_pid), "kill", w.child_pid, 0), LAMBDA w2 :
      Call(waitpid_reap(w2, w.child_pid), "waitpid", w.child_pid,
           IF w2.proc[w.child_pid] = "zombie" THEN w.child_pid ELSE -1)))

\* KillChild without the kill of line 115: the blocking wait is entered
\* for a child that runs on
KillChild_WaitWithoutKill(w0) ==
  Then(Call(g_source_remove(w0, w0.child_watch_source),
            "g_source_remove", w0.child_watch_source, 1), LAMBDA w :
    IF waitpid_nohang_ret(w, w.child_pid) = 0
      THEN Then(Call(w, "waitpid_WNOHANG", w.child_pid, 0), LAMBDA w2 :
             Call(waitpid_reap(w2, w.child_pid),
                  "waitpid", w.child_pid,
                  waitpid_block_ret(w2, w.child_pid)))
      ELSE Call(waitpid_reap(w, w.child_pid), "waitpid_WNOHANG",
                w.child_pid, waitpid_nohang_ret(w, w.child_pid)))

\* the kill_child branch of git_reader_close_process (lines 101-121)
KillChild(w0) ==
  Then(Call(g_source_remove(w0, w0.child_watch_source),
            "g_source_remove", w0.child_watch_source, 1), LAMBDA w :
    IF waitpid_nohang_ret(w, w.child_pid) = 0
      THEN Then(Call(w, "waitpid_WNOHANG", w.child_pid, 0), LAMBDA w2 :
             Then(Call(kill(w2, w.child_pid), "kill", w.child_pid, 0),
                  LAMBDA w3 :
               Call(waitpid_reap(w3, w.child_pid),
                    "waitpid", w.child_pid,
                    waitpid_block_ret(w3, w.child_pid))))
      ELSE Call(waitpid_reap(w, w.child_pid), "waitpid_WNOHANG",
                w.child_pid, waitpid_nohang_ret(w, w.child_pid)))

\* CloseStreams with the channels shut down before the watches are removed
CloseStreams_ShutdownFirst(w) ==
  LET w2 == Call(g_io_channel_shutdown(w, w.child_stdout),
                 "g_io_channel_shutdown", w.child_stdout, 0)
      w3 == Call(g_io_channel_shutdown(w2, w.child_stderr),
                 "g_io_channel_shutdown", w.child_stderr, 0)
      w4 == IF w.child_stdout_source # 0
              THEN Call(g_source_remove(w3, w.child_stdout_source),
                        "g_source_remove", w.child_stdout_source, 1)
              ELSE w3
  IN IF w.child_stderr_source # 0
       THEN Call(g_source_remove(w4, w.child_stderr_source),
                 "g_source_remove", w.child_stderr_source, 1)
       ELSE w4

\* lines 89-97: both stream watches are removed, both channels shut down
CloseStreams(w) ==
  LET w2 == IF w.child_stdout_source # 0
              THEN Call(g_source_remove(w, w.child_stdout_source),
                        "g_source_remove", w.child_stdout_source, 1)
              ELSE w
      w3 == IF w.child_stderr_source # 0
              THEN Call(g_source_remove(w2, w.child_stderr_source),
                        "g_source_remove", w.child_stderr_source, 1)
              ELSE w2
      w4 == Call(g_io_channel_shutdown(w3, w.child_stdout),
                 "g_io_channel_shutdown", w.child_stdout, 0)
  IN Call(g_io_channel_shutdown(w4, w.child_stderr),
          "g_io_channel_shutdown", w.child_stderr, 0)

\* git_reader_close_process without lines 94-97: the channels stay open
git_reader_close_process_KeepsChannels(w0, kill_child) ==
  Then(w0, LAMBDA w :
    IF w.has_child
      THEN Then([CloseStreams(w) EXCEPT !.has_child = FALSE,
                                        !.chanOpen = w.chanOpen],
                LAMBDA w4 :
             IF w4.child_pid # 0
               THEN [(IF kill_child THEN KillChild(w4) ELSE w4)
                       EXCEPT !.child_pid = 0]
               ELSE w4)
      ELSE w)

\* git_reader_close_process without lines 91-92: the stderr watch stays
git_reader_close_process_KeepStderrWatch(w0, kill_child) ==
  Then(w0, LAMBDA w :
    IF w.has_child
      THEN Then([CloseStreams(w) EXCEPT
                   !.has_child = FALSE,
                   !.armed = @ \cup (w.armed \cap {w.child_stderr_source})],
                LAMBDA w4 :
             IF w4.child_pid # 0
               THEN [(IF kill_child THEN KillChild(w4) ELSE w4)
                       EXCEPT !.child_pid = 0]
               ELSE w4)
      ELSE w)

\* git_reader_close_process without line 105: the child watch stays
git_reader_close_process_KeepChildWatch(w0, kill_child) ==
  Then(w0, LAMBDA w :
    IF w.has_child
      THEN Then([CloseStreams(w) EXCEPT !.has_child = FALSE], LAMBDA w4 :
             IF w4.child_pid # 0
               THEN [(IF kill_child
                        THEN [KillChild(w4) EXCEPT !.armed = w4.armed]
                        ELSE w4)
                       EXCEPT !.child_pid = 0]
               ELSE w4)
      ELSE w)

git_reader_close_process(w0, kill_child) ==
  Then(w0, LAMBDA w :
    IF w.has_child
      THEN Then([CloseStreams(w) EXCEPT !.has_child = FALSE], LAMBDA w4 :
             IF w4.child_pid # 0
               THEN [(IF kill_child THEN KillChild(w4) ELSE w4)
                       EXCEPT !.child_pid = 0]
               ELSE w4)
      ELSE w)

\* a stop or a further start tears down the invocation the reader holds
Discard(w, how) ==
  IF w.has_child THEN [w EXCEPT !.torn = @ \cup {<<w.nStart, how>>}] ELSE w

\* the children of this reader that are neither reaped nor collected
Unreaped(w) == {p \in Invs : w.proc[p] \in {"running", "zombie"}}

\* a dispose that also empties the error string
git_reader_dispose_ClearsError(w) ==
  [git_reader_close_process(Discard(w, "stop"), TRUE) EXCEPT
     !.error_string = << >>]

\* git_reader_dispose: the stop operation
git_reader_dispose(w) == git_reader_close_process(Discard(w, "stop"), TRUE)

\* Spawned without the g_string_truncate of line 367
Spawned_KeepsErrorString(w, inv) ==
  [w EXCEPT
     !.child_pid = inv,
     !.overlap = @ \cup Unreaped(w),
     !.proc[inv] = "running",
     !.child_watch_source = SrcId(inv, WATCH),
     !.child_stdout = SrcId(inv, STDOUT),
     !.child_stdout_source = SrcId(inv, STDOUT),
     !.child_stderr = SrcId(inv, STDERR),
     !.child_stderr_source = SrcId(inv, STDERR),
     !.armed = @ \cup {SrcId(inv, WATCH), SrcId(inv, STDOUT),
                       SrcId(inv, STDERR)},
     !.chanOpen = @ \cup {SrcId(inv, STDOUT), SrcId(inv, STDERR)},
     !.written = FALSE,
     !.outData = << >>, !.errData = << >>,
     !.outLeft = << >>, !.errLeft = << >>,
     !.sink = << >>,
     !.recorded = << >>,
     !.has_child = TRUE]

\* lines 342-367: the watches, the channels and the fields of a new child
Spawned(w, inv) ==
  [w EXCEPT
     !.child_pid = inv,
     !.overlap = @ \cup Unreaped(w),
     !.proc[inv] = "running",
     !.child_watch_source = SrcId(inv, WATCH),
     !.child_stdout = SrcId(inv, STDOUT),
     !.child_stdout_source = SrcId(inv, STDOUT),
     !.child_stderr = SrcId(inv, STDERR),
     !.child_stderr_source = SrcId(inv, STDERR),
     !.armed = @ \cup {SrcId(inv, WATCH), SrcId(inv, STDOUT),
                       SrcId(inv, STDERR)},
     !.chanOpen = @ \cup {SrcId(inv, STDOUT), SrcId(inv, STDERR)},
     !.written = FALSE,
     !.outData = << >>, !.errData = << >>,
     !.outLeft = << >>, !.errLeft = << >>,
     !.sink = << >>,
     !.recorded = << >>,
     !.has_child = TRUE,
     !.error_string = << >>]

\* git_reader_start that closes the previous process only when the spawn
\* has succeeded
git_reader_start_CloseAfterSpawn(w0, spawn_ret) ==
  Then(Discard(w0, "start"), LAMBDA w :
    IF ~spawn_ret
      THEN [w EXCEPT !.nStart = @ + 1, !.start_ret = "FALSE"]
      ELSE Spawned([git_reader_close_process(w, TRUE) EXCEPT
                      !.nStart = @ + 1, !.start_ret = "TRUE"],
                   w.nStart + 1))

\* git_reader_start without the close_process of line 312
git_reader_start_NoClose(w0, spawn_ret) ==
  Then(Discard(w0, "start"), LAMBDA w :
    IF ~spawn_ret
      THEN [w EXCEPT !.nStart = @ + 1, !.start_ret = "FALSE"]
      ELSE Spawned([w EXCEPT !.nStart = @ + 1, !.start_ret = "TRUE"],
                   w.nStart + 1))

\* git_reader_start without the return of lines 339-340: the watches are
\* added and has_child is set though nothing was spawned
git_reader_start_NoSpawnCheck(w0, spawn_ret) ==
  Then(git_reader_close_process(Discard(w0, "start"), TRUE), LAMBDA w :
    IF ~spawn_ret
      THEN [Spawned([w EXCEPT !.nStart = @ + 1, !.start_ret = "FALSE"],
                    w.nStart + 1)
              EXCEPT !.proc = w.proc, !.child_pid = w.child_pid]
      ELSE Spawned([w EXCEPT !.nStart = @ + 1, !.start_ret = "TRUE"],
                   w.nStart + 1))

\* git_reader_start; spawn_ret is what g_spawn_async_with_pipes returns.
\* A failed spawn leaves child_pid as it was.
git_reader_start(w0, spawn_ret) ==
  Then(git_reader_close_process(Discard(w0, "start"), TRUE), LAMBDA w :
    IF ~spawn_ret
      THEN [w EXCEPT !.nStart = @ + 1, !.start_ret = "FALSE"]
      ELSE Spawned([w EXCEPT !.nStart = @ + 1, !.start_ret = "TRUE"],
                   w.nStart + 1))

\* What the handler connected to "completed" does: nothing, a stop, or a
\* further start (whose spawn succeeds or fails).
HandlerOps == {"none", "stop", "start", "start_fail"}

CompletedHandler(w, h) ==
  CASE h = "stop" -> git_reader_dispose(w)
    [] h = "start" -> git_reader_start(w, TRUE)
    [] h = "start_fail" -> git_reader_start(w, FALSE)
    [] OTHER -> w

\* g_signal_emit (reader, client_signals[COMPLETED], 0, error), emitted from
\* the callback of source src; the handler runs before g_signal_emit returns
g_signal_emit(w0, src, path, error, h) ==
  Then(w0, LAMBDA w :
    CompletedHandler(
      [w EXCEPT
         !.emitted[SrcInv(src)] = @ + 1,
         !.lastEmit = [inv |-> SrcInv(src), path |-> path,
                       by |-> SrcKind(src),
                       error |-> error, recorded |-> w.recorded,
                       status |-> w.waitStatus[SrcInv(src)],
                       stderr |-> w.errData,
                       stdout |-> w.outData, sink |-> w.sink,
                       held |-> w.has_child,
                       pid |-> w.child_pid,
                       child |-> w.proc[SrcInv(src)],
                       armed |-> {k \in {WATCH, STDOUT, STDERR} :
                                    SrcId(SrcInv(src), k) \in w.armed},
                       open |-> {k \in {STDOUT, STDERR} :
                                   SrcId(SrcInv(src), k) \in w.chanOpen}]],
      h))

\* the loop of lines 175-177; len is a C index into str
RECURSIVE TrimLoop(_, _)
TrimLoop(str, len) ==
  IF len > 0 /\ isspace(str[len + 1]) THEN TrimLoop(str, len - 1) ELSE len

\* g_string_truncate (string, len): len is a gsize, so a negative gssize is
\* a huge length and leaves the string whole
g_string_truncate(str, len) ==
  IF len < 0 THEN str ELSE SubSeq(str, 1, Min(len, Len(str)))

\* ExitError without the else branch of lines 184-186
ExitError_NoGeneric(str) ==
  LET len == TrimLoop(str, Len(str) - 1)
      cut == g_string_truncate(str, len)
  IN [error_string |-> cut, error |-> ExitStatusError(cut)]

\* lines 170-187: the error of an invocation whose exit code is non-zero
\* and the error string the loop leaves behind
ExitError(str) ==
  LET len == TrimLoop(str, Len(str) - 1)
      cut == g_string_truncate(str, len)
  IN [error_string |-> cut,
      error |-> IF len > 0 THEN ExitStatusError(MsgPrefix \o cut)
                           ELSE ExitStatusError(MsgGeneric)]

\* the join without the test of child_pid
JoinComplete_NoExit(w) ==
  /\ w.child_stdout_source = 0
  /\ w.child_stderr_source = 0

\* lines 162-164: the join
JoinComplete(w) ==
  /\ w.child_pid = 0
  /\ w.child_stdout_source = 0
  /\ w.child_stderr_source = 0

\* Complete that builds the error from a non-empty error string whatever
\* the exit code
Complete_ErrorOnStderr(w0, src, h) ==
  Then(git_reader_close_process(w0, FALSE), LAMBDA w :
    IF w.child_exit_code # 0 \/ w.error_string # << >>
      THEN g_signal_emit(
             [w EXCEPT !.error_string = ExitError(w.error_string).error_string],
             src, "join", ExitError(w.error_string).error, h)
      ELSE g_signal_emit(w, src, "join", NoError, h))

\* Complete that emits the signal before it lets the invocation go
Complete_EmitBeforeClose(w0, src, h) ==
  Then(w0, LAMBDA w :
    git_reader_close_process(
      IF w.child_exit_code # 0
        THEN g_signal_emit(
               [w EXCEPT
                  !.error_string = ExitError(w.error_string).error_string],
               src, "join", ExitError(w.error_string).error, h)
        ELSE g_signal_emit(w, src, "join", NoError, h),
      FALSE))

\* Complete that empties the error string once the emission has returned
Complete_FreesBuffer(w0, src, h) ==
  Then(git_reader_close_process(w0, FALSE), LAMBDA w :
    [(IF w.child_exit_code # 0
        THEN g_signal_emit(
               [w EXCEPT
                  !.error_string = ExitError(w.error_string).error_string],
               src, "join", ExitError(w.error_string).error, h)
        ELSE g_signal_emit(w, src, "join", NoError, h))
       EXCEPT !.error_string = << >>])

\* lines 166-192: the invocation is let go, the error is built, the signal
\* is emitted
Complete(w0, src, h) ==
  Then(git_reader_close_process(w0, FALSE), LAMBDA w :
    IF w.child_exit_code # 0
      THEN g_signal_emit(
             [w EXCEPT !.error_string = ExitError(w.error_string).error_string],
             src, "join", ExitError(w.error_string).error, h)
      ELSE g_signal_emit(w, src, "join", NoError, h))

\* check_complete without the test of child_stderr_source
git_reader_check_complete_NoStderr(w0, src, h) ==
  Then(w0, LAMBDA w :
    IF w.child_pid = 0 /\ w.child_stdout_source = 0
      THEN Complete(w, src, h) ELSE w)

git_reader_check_complete(w0, src, h) ==
  Then(w0, LAMBDA w : IF JoinComplete(w) THEN Complete(w, src, h) ELSE w)

\* a callback is dispatched for the invocation of source src: too late if
\* that invocation was torn down or has emitted "completed"; status is what
\* its read reports, "exit" for the exit handler
Dispatched(w, src, status) ==
  [w EXCEPT !.late = @ \cup (IF SrcInv(src) \in {t[1] : t \in w.torn}
                               THEN {<<SrcInv(src), "torn">>} ELSE {})
                       \cup (IF w.emitted[SrcInv(src)] > 0
                               THEN {<<SrcInv(src), "completed">>} ELSE {}),
            !.read_error = IF status = "G_IO_STATUS_ERROR" THEN src ELSE 0]

\* a signal of the invocation has arrived
Record(w, kind) == [w EXCEPT !.recorded = Append(@, kind)]

\* on_child_exit without line 203: child_pid is left set
git_reader_on_child_exit_KeepPid(w0, src, h) ==
  Then(w0, LAMBDA w :
    g_source_remove(
      git_reader_check_complete(
        [Record(Dispatched(w, src, "exit"), WATCH) EXCEPT
           !.proc[SrcInv(src)] = "reaped",
           !.child_exit_code = w.waitStatus[SrcInv(src)]],
        src, h),
      src))

\* GLib calls it with the pid the watch was added for and the status it
\* collected, and destroys the child watch source when it returns
git_reader_on_child_exit(w0, src, h) ==
  Then(w0, LAMBDA w :
    g_source_remove(
      git_reader_check_complete(
        [Record(Dispatched(w, src, "exit"), WATCH) EXCEPT
           !.proc[SrcInv(src)] = "reaped",
           !.child_pid = 0,
           !.child_exit_code = w.waitStatus[SrcInv(src)]],
        src, h),
      src))

\* on_read_error that emits first and closes the process afterwards
git_reader_on_read_error_CloseAfterEmit(w, src, h) ==
  git_reader_close_process(g_signal_emit(w, src, "ioerror", IoError, h), TRUE)

\* on_read_error that lets the invocation go without killing the child
git_reader_on_read_error_NoKill(w, src, h) ==
  g_signal_emit(git_reader_close_process(w, FALSE), src, "ioerror", IoError, h)

\* lines 210-218
git_reader_on_read_error(w, src, h) ==
  g_signal_emit(git_reader_close_process(w, TRUE), src, "ioerror", IoError, h)

\* on_child_stdout without the fwrite of line 241
git_reader_on_child_stdout_NoWrite(w0, src, status, n, h) ==
  Then(Dispatched(w0, src, status), LAMBDA w :
    CASE status = "G_IO_STATUS_ERROR" ->
           g_source_remove(git_reader_on_read_error(w, src, h), src)
      [] status = "G_IO_STATUS_NORMAL" ->
           [w EXCEPT !.sink = @ \o <<GotStdoutOpen, << >>, GotStdoutClose>>,
                     !.outLeft = SubSeq(@, n + 1, Len(@))]
      [] status = "G_IO_STATUS_EOF" ->
           g_source_remove(
             git_reader_check_complete(
               [Record(w, STDOUT) EXCEPT !.child_stdout_source = 0], src, h),
             src)
      [] OTHER -> [w EXCEPT !.quiet = "again"])

\* on_child_stdout that returns TRUE at end-of-stream: its watch stays
git_reader_on_child_stdout_EofKeepsWatch(w0, src, status, n, h) ==
  Then(Dispatched(w0, src, status), LAMBDA w :
    CASE status = "G_IO_STATUS_ERROR" ->
           g_source_remove(git_reader_on_read_error(w, src, h), src)
      [] status = "G_IO_STATUS_NORMAL" ->
           [w EXCEPT !.sink = @ \o <<GotStdoutOpen, SubSeq(w.outLeft, 1, n),
                                      GotStdoutClose>>,
                     !.outLeft = SubSeq(@, n + 1, Len(@))]
      [] status = "G_IO_STATUS_EOF" ->
           git_reader_check_complete(
             [Record(w, STDOUT) EXCEPT !.child_stdout_source = 0], src, h)
      [] OTHER -> [w EXCEPT !.quiet = "again"])

\* status is what g_io_channel_read_chars returns and n the bytes it read;
\* a callback that returns FALSE has its source destroyed by GLib
git_reader_on_child_stdout(w0, src, status, n, h) ==
  Then(Dispatched(w0, src, status), LAMBDA w :
    CASE status = "G_IO_STATUS_ERROR" ->
           g_source_remove(git_reader_on_read_error(w, src, h), src)
      [] status = "G_IO_STATUS_NORMAL" ->
           [w EXCEPT !.sink = @ \o <<GotStdoutOpen, SubSeq(w.outLeft, 1, n),
                                      GotStdoutClose>>,
                     !.outLeft = SubSeq(@, n + 1, Len(@))]
      [] status = "G_IO_STATUS_EOF" ->
           g_source_remove(
             git_reader_check_complete(
               [Record(w, STDOUT) EXCEPT !.child_stdout_source = 0], src, h),
             src)
      [] OTHER -> [w EXCEPT !.quiet = "again"])

\* on_child_stderr that returns TRUE at end-of-stream: its watch stays
git_reader_on_child_stderr_EofKeepsWatch(w0, src, status, n, h) ==
  Then(Dispatched(w0, src, status), LAMBDA w :
    CASE status = "G_IO_STATUS_ERROR" ->
           g_source_remove(git_reader_on_read_error(w, src, h), src)
      [] status = "G_IO_STATUS_NORMAL" ->
           [w EXCEPT !.error_string = @ \o SubSeq(w.errLeft, 1, n),
                     !.errLeft = SubSeq(@, n + 1, Len(@))]
      [] status = "G_IO_STATUS_EOF" ->
           git_reader_check_complete(
             [Record(w, STDERR) EXCEPT !.child_stderr_source = 0], src, h)
      [] OTHER -> [w EXCEPT !.quiet = "again"])

\* on_child_stderr that replaces the error string by the chunk it has read
git_reader_on_child_stderr_Overwrites(w0, src, status, n, h) ==
  Then(Dispatched(w0, src, status), LAMBDA w :
    CASE status = "G_IO_STATUS_ERROR" ->
           g_source_remove(git_reader_on_read_error(w, src, h), src)
      [] status = "G_IO_STATUS_NORMAL" ->
           [w EXCEPT !.error_string = SubSeq(w.errLeft, 1, n),
                     !.errLeft = SubSeq(@, n + 1, Len(@))]
      [] status = "G_IO_STATUS_EOF" ->
           g_source_remove(
             git_reader_check_complete(
               [Record(w, STDERR) EXCEPT !.child_stderr_source = 0], src, h),
             src)
      [] OTHER -> [w EXCEPT !.quiet = "again"])

\* on_child_stderr that returns FALSE when the read reports AGAIN
git_reader_on_child_stderr_AgainEndsWatch(w0, src, status, n, h) ==
  Then(Dispatched(w0, src, status), LAMBDA w :
    CASE status = "G_IO_STATUS_ERROR" ->
           g_source_remove(git_reader_on_read_error(w, src, h), src)
      [] status = "G_IO_STATUS_NORMAL" ->
           [w EXCEPT !.error_string = @ \o SubSeq(w.errLeft, 1, n),
                     !.errLeft = SubSeq(@, n + 1, Len(@))]
      [] status = "G_IO_STATUS_EOF" ->
           g_source_remove(
             git_reader_check_complete(
               [Record(w, STDERR) EXCEPT !.child_stderr_source = 0], src, h),
             src)
      [] OTHER -> g_source_remove([w EXCEPT !.quiet = "again"], src))

git_reader_on_child_stderr(w0, src, status, n, h) ==
  Then(Dispatched(w0, src, status), LAMBDA w :
    CASE status = "G_IO_STATUS_ERROR" ->
           g_source_remove(git_reader_on_read_error(w, src, h), src)
      [] status = "G_IO_STATUS_NORMAL" ->
           [w EXCEPT !.error_string = @ \o SubSeq(w.errLeft, 1, n),
                     !.errLeft = SubSeq(@, n + 1, Len(@))]
      [] status = "G_IO_STATUS_EOF" ->
           g_source_remove(
             git_reader_check_complete(
               [Record(w, STDERR) EXCEPT !.child_stderr_source = 0], src, h),
             src)
      [] OTHER -> [w EXCEPT !.quiet = "again"])

(* ----------------------------- the pipes ------------------------------- *)

\* the numbers of bytes a read may return when avail bytes are there: all
\* of them, or half of them
ChunkSizes(avail) == {avail, (avail + 1) \div 2}

\* What a read of the channel of source src can report, with the number of
\* bytes read; data is what the child writes to the channel and left the
\* part of it not yet read.  A channel that is shut down reports an error.
\* The channel of the current child has nothing to read until the child has
\* written; then it reports a chunk of what is left, or end-of-stream when
\* nothing is left.  Any read may fail, and a read before the child has
\* written, or after a part was read, may find nothing ready.
ReadOutcomes(w, src, data, left) ==
  IF src \notin w.chanOpen
    THEN {<<"G_IO_STATUS_ERROR", 0>>}
    ELSE {<<"G_IO_STATUS_ERROR", 0>>}
         \cup (IF src \notin {w.child_stdout, w.child_stderr} THEN {}
               ELSE IF ~w.written THEN {<<"G_IO_STATUS_AGAIN", 0>>}
               ELSE IF left = << >> THEN {<<"G_IO_STATUS_EOF", 0>>}
               ELSE {<<"G_IO_STATUS_NORMAL", n>> :
                       n \in ChunkSizes(Min(Len(left), BufSize))}
                    \cup (IF left # data
                            THEN {<<"G_IO_STATUS_AGAIN", 0>>} ELSE {}))

(* ------------------------------ actions -------------------------------- *)

\* the world a step starts from: what the step before it emitted and
\* reported is history
Pre ==
  [World EXCEPT !.lastEmit = NoEmit, !.quiet = "none", !.signalled = {},
                !.start_ret = "none", !.closeCalls = << >>,
                !.read_error = 0]

\* the handler may start again only while calls are left in the bound
Handlers == IF nStart < MaxStarts THEN HandlerOps ELSE {"none", "stop"}

\* A callback F, given what the handler of "completed" does.  The handler
\* only matters to a callback that emits the signal.
Fire(F(_)) ==
  \E r \in {F("none")} :
    IF r.emitted = emitted
      THEN Commit(r)
      ELSE \E h \in Handlers : Commit(F(h))

\* a call of git_reader_start from the application
Start(spawn_ret) ==
  /\ nStart < MaxStarts
  /\ Commit(git_reader_start(Pre, spawn_ret))

\* a stop from the application
Stop ==
  /\ Commit([git_reader_dispose(Pre) EXCEPT
               !.quiet = IF has_child THEN "none" ELSE "stop"])

\* the current child writes its output
ChildWrites(out, err) ==
  /\ has_child
  /\ ~written
  /\ Commit([Pre EXCEPT !.written = TRUE,
                          !.outData = out, !.outLeft = out,
                          !.errData = err, !.errLeft = err])

\* a running child exits
ChildExits(pid, code) ==
  /\ proc[pid] = "running"
  /\ Commit([Pre EXCEPT !.proc[pid] = "zombie",
                          !.waitStatus[pid] = W_EXITCODE(code)])

\* the child watch source finds its child exited and collects the status
ChildWatchCheck(src) ==
  /\ src \in armed
  /\ SrcKind(src) = WATCH
  /\ proc[SrcInv(src)] = "zombie"
  /\ Commit([Pre EXCEPT !.proc[SrcInv(src)] = "collected"])

OnChildExit(src) ==
  /\ src \in armed
  /\ SrcKind(src) = WATCH
  /\ proc[SrcInv(src)] = "collected"
  /\ Fire(LAMBDA h : git_reader_on_child_exit(Pre, src, h))

OnChildStdout(src) ==
  /\ src \in armed
  /\ SrcKind(src) = STDOUT
  /\ \E o \in ReadOutcomes(Pre, src, outData, outLeft) :
       Fire(LAMBDA h : git_reader_on_child_stdout(Pre, src, o[1], o[2], h))

OnChildStderr(src) ==
  /\ src \in armed
  /\ SrcKind(src) = STDERR
  /\ \E o \in ReadOutcomes(Pre, src, errData, errLeft) :
       Fire(LAMBDA h : git_reader_on_child_stderr(Pre, src, o[1], o[2], h))

Sources == 1..(3 * MaxStarts)

Next ==
  \/ \E ok \in BOOLEAN : Start(ok)
  \/ Stop
  \/ \E out \in OutInputs, err \in ErrInputs : ChildWrites(out, err)
  \/ \E pid \in Invs, code \in ExitCodes : ChildExits(pid, code)
  \/ \E src \in Sources : ChildWatchCheck(src)
  \/ \E src \in Sources : OnChildExit(src)
  \/ \E src \in Sources : OnChildStdout(src)
  \/ \E src \in Sources : OnChildStderr(src)

Spec == Init /\ [][Next]_vars

(* ---------------------------- liveness --------------------------------- *)

\* Whether an invocation completes does not depend on what its stderr text
\* is, only on how it is read: the liveness specification draws the text
\* from an empty one and one read in one or two chunks.
LiveErrInputs == {<< >>, <<"x", " ">>}

LiveNext ==
  \/ \E ok \in BOOLEAN : Start(ok)
  \/ Stop
  \/ \E out \in OutInputs, err \in LiveErrInputs : ChildWrites(out, err)
  \/ \E pid \in Invs, code \in ExitCodes : ChildExits(pid, code)
  \/ \E src \in Sources : ChildWatchCheck(src)
  \/ \E src \in Sources : OnChildExit(src)
  \/ \E src \in Sources : OnChildStdout(src)
  \/ \E src \in Sources : OnChildStderr(src)

\* The child writes its output and exits, the main loop dispatches a source
\* that is ready, and a read reports data, end-of-stream or an error.
Progress ==
  \/ \E out \in OutInputs, err \in LiveErrInputs : ChildWrites(out, err)
  \/ \E pid \in Invs, code \in ExitCodes : ChildExits(pid, code)
  \/ \E src \in Sources : ChildWatchCheck(src)
  \/ \E src \in Sources : OnChildExit(src)
  \/ \E src \in Sources : OnChildStdout(src) /\ quiet' # "again"
  \/ \E src \in Sources : OnChildStderr(src) /\ quiet' # "again"

\* The application may stop calling start and stop; the child and the main
\* loop do not stop while a step of theirs is possible.
LiveSpec == Init /\ [][LiveNext]_vars /\ WF_vars(Progress)

(* ------------------------------ claims --------------------------------- *)

Signals == {WATCH, STDOUT, STDERR}
Range(s) == {s[i] : i \in 1..Len(s)}
TornInvs == {t[1] : t \in torn}
JoinEmitted == lastEmit.path = "join"

\* the text has a character that is not white space
HasText(str) == \E i \in 1..Len(str) : ~isspace(str[i])

\* the text without its trailing white space
RECURSIVE RTrim(_)
RTrim(str) ==
  IF str # << >> /\ isspace(str[Len(str)])
    THEN RTrim(SubSeq(str, 1, Len(str) - 1)) ELSE str

\* the result lines 170-187 give for a wait status and a full stderr text
ResultOf(status, text) ==
  IF status # 0 THEN ExitError(text).error ELSE NoError

\* the calls of close_process in the last step that are calls of op
CallsOf(op) == {i \in 1..Len(closeCalls) : closeCalls[i].op = op}

\* the place of a call in the order of lines 89-119
Rank(c) ==
  CASE c.op = "g_source_remove" /\ SrcKind(c.arg) = STDOUT -> 1
    [] c.op = "g_source_remove" /\ SrcKind(c.arg) = STDERR -> 2
    [] c.op = "g_io_channel_shutdown" /\ SrcKind(c.arg) = STDOUT -> 3
    [] c.op = "g_io_channel_shutdown" /\ SrcKind(c.arg) = STDERR -> 4
    [] c.op = "g_source_remove" /\ SrcKind(c.arg) = WATCH -> 5
    [] c.op = "waitpid_WNOHANG" -> 6
    [] c.op = "kill" -> 7
    [] c.op = "waitpid" -> 8
    [] OTHER -> 0

CallRanks == {Rank(closeCalls[i]) : i \in 1..Len(closeCalls)}

\* the invocation a call is about: of a source id, or of a pid
CallInv(c) ==
  IF c.op \in {"g_source_remove", "g_io_channel_shutdown"}
    THEN SrcInv(c.arg) ELSE c.arg

\* C1: "completed" is emitted at most once for every invocation, over every
\* interleaving of child exit, read outcomes, stops and further starts.
C1_CompletedAtMostOnce == \A i \in Invs : emitted[i] <= 1

C1_Witness ==
  \E i, j \in Invs : i # j /\ emitted[i] = 1 /\ emitted[j] = 1

\* C2: under fairness, an invocation that was started and is never torn
\* down by a stop or a further start eventually emits "completed".
C2_EventuallyCompleted ==
  \A i \in Invs :
    (has_child /\ nStart = i) ~> (emitted[i] >= 1 \/ i \in TornInvs)

C2_Witness ==
  /\ JoinEmitted
  /\ lastEmit.inv = nStart
  /\ TornInvs = {}

\* C3: the join emits "completed" only when the exit handler has run and
\* both streams have reported end-of-stream for the invocation.
C3_JoinNeedsAllThree ==
  JoinEmitted =>
    /\ Len(lastEmit.recorded) = 3
    /\ Range(lastEmit.recorded) = Signals

C3_Witness ==
  /\ JoinEmitted
  /\ Range(lastEmit.recorded) = Signals

\* C4: the result of a join depends only on the exit status and the stderr
\* bytes, not on the order of the three signals, and it is emitted by the
\* handler that records the last of the three.
C4_OrderIndependent ==
  JoinEmitted =>
    /\ lastEmit.error = ResultOf(lastEmit.status, lastEmit.stderr)
    /\ lastEmit.recorded # << >>
    /\ lastEmit.by = lastEmit.recorded[Len(lastEmit.recorded)]

C4_Witness ==
  /\ JoinEmitted
  /\ lastEmit.recorded = <<STDERR, STDOUT, WATCH>>
  /\ lastEmit.by = WATCH
  /\ lastEmit.error.code = "GIT_ERROR_EXIT_STATUS"
  /\ lastEmit.stderr # << >>

\* the other two arrival orders of the last signal are reached as well
C4_WitnessStdoutLast == JoinEmitted /\ lastEmit.by = STDOUT
C4_WitnessStderrLast == JoinEmitted /\ lastEmit.by = STDERR

\* C5: a child that exits with status 0 completes with no error, whatever
\* was captured from stderr.
C5_ZeroExitNoError ==
  (JoinEmitted /\ lastEmit.status = W_EXITCODE(0)) => lastEmit.error = NoError

C5_Witness ==
  /\ JoinEmitted
  /\ lastEmit.status = W_EXITCODE(0)
  /\ HasText(lastEmit.stderr)

\* C6: with a non-zero exit status and a stderr text that is not all white
\* space, the message of the error is the stderr text without its trailing
\* white space, exactly.
C6_MessageIsTrimmedStderr ==
  (JoinEmitted /\ lastEmit.status # 0 /\ HasText(lastEmit.stderr)) =>
    lastEmit.error = ExitStatusError(RTrim(lastEmit.stderr))

\* C7: with a non-zero exit status and a stderr text that is empty or all
\* white space, the error is an ExitStatus error with the generic message,
\* which is not empty.
C7_GenericMessage ==
  (JoinEmitted /\ lastEmit.status # 0 /\ ~HasText(lastEmit.stderr)) =>
    /\ lastEmit.error.code = "GIT_ERROR_EXIT_STATUS"
    /\ lastEmit.error.message = MsgGeneric
    /\ lastEmit.error.message # << >>

C7_Witness ==
  /\ JoinEmitted
  /\ lastEmit.status # 0
  /\ lastEmit.stderr # << >>
  /\ ~HasText(lastEmit.stderr)

\* C8: a start over a running invocation has the prior child reaped before
\* the new one is spawned, and nothing is emitted and no callback runs for
\* the invocation it discards.
C8_SupersededReapedAndSilent ==
  /\ overlap = {}
  /\ \A t \in torn :
       t[2] = "start" =>
         /\ emitted[t[1]] = 0
         /\ proc[t[1]] = "reaped"
         /\ <<t[1], "torn">> \notin late

C8_Witness ==
  /\ \E t \in torn : t[2] = "start" /\ t[1] + 1 = nStart
  /\ has_child
  /\ proc[nStart] = "running"

\* C9: after a stop, nothing is emitted for the invocation it tore down, no
\* callback runs for it and none of its three sources is attached.
C9_StoppedIsSilent ==
  \A t \in torn :
    t[2] = "stop" =>
      /\ emitted[t[1]] = 0
      /\ <<t[1], "torn">> \notin late
      /\ \A k \in Signals : SrcId(t[1], k) \notin armed

C9_Witness ==
  /\ \E t \in torn : t[2] = "stop" /\ t[1] = nStart
  /\ child_stdout_source = 0
  /\ child_stderr_source # 0

\* C10: a stop of a reader that holds no invocation changes nothing: no
\* field, no process, no source, no channel, and it emits nothing.
C10_IdleStopIsNoOp ==
  [][(~has_child /\ Stop) =>
       /\ UNCHANGED <<privVars, nStart, proc, waitStatus, armed, chanOpen,
                      emitted, torn, late, overlap>>
       /\ signalled' = {}
       /\ lastEmit' = NoEmit]_vars

C10_Witness ==
  /\ quiet = "stop"
  /\ \E i \in Invs : emitted[i] = 1
  /\ error_string # << >>

\* the calls of git_reader_start whose spawn failed
FailedStarts == {i \in 1..nStart : proc[i] = "none"}
LateInvs == {l[1] : l \in late}

\* C11: when the program cannot be spawned, git_reader_start returns FALSE
\* at once, the reader holds no child, no source of that call is attached,
\* no callback runs for it and "completed" is never emitted for it.
C11_FailedSpawnIsSynchronous ==
  /\ start_ret = "FALSE" => nStart \in FailedStarts
  /\ start_ret = "TRUE" => nStart \notin FailedStarts
  /\ start_ret = "FALSE" => (~has_child /\ child_pid = 0)
  /\ \A i \in FailedStarts :
       /\ emitted[i] = 0
       /\ i \notin LateInvs
       /\ \A k \in Signals : SrcId(i, k) \notin armed
       /\ \A k \in Signals : SrcId(i, k) \notin chanOpen

\* a start that fails over a running invocation, and a later step
C11_Witness ==
  /\ start_ret = "FALSE"
  /\ \E t \in torn : t[2] = "start" /\ t[1] + 1 = nStart
  /\ proc[nStart - 1] = "reaped"

\* C12: a read of stdout or stderr that reports an error emits "completed"
\* with the I/O error in the same step, whatever signals were recorded
\* before: the child is killed if it still runs and is reaped, its three
\* sources are detached and both channels are shut down.
C12_ReadErrorCompletesAtOnce ==
  /\ read_error # 0 <=> lastEmit.path = "ioerror"
  /\ read_error # 0 =>
       /\ SrcKind(read_error) \in {STDOUT, STDERR}
       /\ lastEmit.inv = SrcInv(read_error)
       /\ lastEmit.by = SrcKind(read_error)
       /\ lastEmit.error = IoError
       /\ ~lastEmit.held
       /\ Len(lastEmit.recorded) <= 2
       /\ emitted[lastEmit.inv] = 1
       /\ proc[lastEmit.inv] = "reaped"
       /\ {3, 4} \subseteq CallRanks
       /\ CallsOf("waitpid_WNOHANG") # {} <=>
            WATCH \notin Range(lastEmit.recorded)
       /\ \A i \in CallsOf("waitpid_WNOHANG") :
            closeCalls[i].ret = 0 =>
              /\ signalled = {<<lastEmit.inv, "running">>}
              /\ CallsOf("waitpid") # {}
       /\ \A i \in 1..Len(closeCalls) : CallInv(closeCalls[i]) = lastEmit.inv
       /\ \A k \in Signals : SrcId(lastEmit.inv, k) \notin armed
       /\ \A k \in Signals : SrcId(lastEmit.inv, k) \notin chanOpen

\* a read error while the child runs and the other stream has ended
C12_Witness ==
  /\ lastEmit.path = "ioerror"
  /\ <<lastEmit.inv, "running">> \in signalled
  /\ Len(lastEmit.recorded) = 1
  /\ lastEmit.recorded[1] \in {STDOUT, STDERR}

\* the other subsets of recorded signals a read error meets
C12_WitnessNothingRecorded ==
  lastEmit.path = "ioerror" /\ lastEmit.recorded = << >>
C12_WitnessExitRecorded ==
  lastEmit.path = "ioerror" /\ lastEmit.recorded = <<WATCH>>
C12_WitnessExitAndStreamRecorded ==
  /\ lastEmit.path = "ioerror"
  /\ Len(lastEmit.recorded) = 2
  /\ WATCH \in Range(lastEmit.recorded)

\* C13: "completed" is the last notification of an invocation: once it is
\* emitted, by the join or by a read error, none of the invocation's three
\* sources is attached and none of its callbacks is dispatched again.
C13_CompletedIsLast ==
  \A i \in Invs :
    emitted[i] >= 1 =>
      /\ <<i, "completed">> \notin late
      /\ \A k \in Signals : SrcId(i, k) \notin armed

\* an invocation has completed and callbacks of a later one have run
C13_Witness ==
  /\ \E i \in Invs : emitted[i] = 1 /\ i < nStart
  /\ has_child
  /\ lastEmit = NoEmit
  /\ Len(recorded) >= 2

\* the chunks among the writes: the second of every three
ForwardedChunks(writes) ==
  [i \in 1..(Len(writes) \div 3) |-> writes[3 * i - 1]]

RECURSIVE Concat(_)
Concat(chunks) ==
  IF chunks = << >> THEN << >> ELSE Head(chunks) \o Concat(Tail(chunks))

\* C14: the chunks of stdout are written in the order the child produced
\* them, each once: what is written and what is still to be read make up
\* the child's stdout, and at a join all of it has been written.
C14_StdoutForwardedInOrder ==
  /\ has_child =>
       /\ Len(sink) % 3 = 0
       /\ \A i \in 1..Len(sink) :
            /\ i % 3 = 1 => sink[i] = GotStdoutOpen
            /\ i % 3 = 0 => sink[i] = GotStdoutClose
       /\ \A c \in Range(ForwardedChunks(sink)) : c # << >>
       /\ Concat(ForwardedChunks(sink)) \o outLeft = outData
  /\ JoinEmitted =>
       Concat(ForwardedChunks(lastEmit.sink)) = lastEmit.stdout

\* a join after the child's stdout was read in two chunks
C14_Witness ==
  /\ JoinEmitted
  /\ Len(ForwardedChunks(lastEmit.sink)) = 2
  /\ lastEmit.stdout = <<"a", "b">>

\* C15: the reader never has two live children: a child that is spawned
\* and not reaped is the one the reader holds, and no child is spawned
\* while an earlier one is unreaped.
C15_AtMostOneLiveChild ==
  /\ Cardinality(Unreaped(st)) <= 1
  /\ \A p \in Unreaped(st) : has_child /\ child_pid = p /\ p = nStart
  /\ overlap = {}

\* the handler of the first invocation's "completed" has started a second
C15_Witness ==
  /\ lastEmit.inv = 1
  /\ start_ret = "TRUE"
  /\ proc[1] = "reaped"
  /\ proc[2] = "running"

\* C16: close_process sends SIGTERM only right after its non-blocking wait
\* has returned 0 for that child: a child the wait has reaped, a child GLib
\* has collected and a child whose exit handler has run are not signalled,
\* so no signal goes to a process id that is reaped.
C16_KillOnlyAfterWaitSaysRunning ==
  /\ \A i \in CallsOf("kill") :
       /\ i > 1
       /\ closeCalls[i - 1] =
            [op |-> "waitpid_WNOHANG", arg |-> closeCalls[i].arg, ret |-> 0]
  /\ \A i \in CallsOf("waitpid_WNOHANG") :
       closeCalls[i].ret # 0 => CallsOf("kill") = {}
  /\ signalled = {<<closeCalls[i].arg, "running">> : i \in CallsOf("kill")}

\* a teardown whose non-blocking wait reaps a child that has exited
C16_Witness ==
  /\ \E i \in CallsOf("waitpid_WNOHANG") : closeCalls[i].ret = closeCalls[i].arg
  /\ signalled = {}
  /\ torn # {}

\* the other teardowns: the child is killed, GLib has collected it, the
\* exit handler has run
C16_WitnessKilled == CallsOf("kill") # {}
C16_WitnessCollected ==
  \E i \in CallsOf("waitpid_WNOHANG") : closeCalls[i].ret = -1
C16_WitnessExitHandled ==
  /\ lastEmit = NoEmit
  /\ closeCalls # << >>
  /\ CallsOf("waitpid_WNOHANG") = {}

\* C17: a teardown removes the stream watches, then shuts the channels
\* down, then removes the child watch and waits without blocking, and only
\* then kills and waits; when it returns no source of the invocation is
\* attached and no channel of it is open.
C17_TeardownOrder ==
  /\ \A i, j \in 1..Len(closeCalls) :
       i < j =>
         /\ Rank(closeCalls[i]) < Rank(closeCalls[j])
         /\ CallInv(closeCalls[i]) = CallInv(closeCalls[j])
  /\ 0 \notin CallRanks
  /\ closeCalls # << >> =>
       /\ {3, 4} \subseteq CallRanks
       /\ CallRanks \cap {5, 6, 7, 8} \in {{}, {5, 6}, {5, 6, 7, 8}}
       /\ \A k \in Signals :
            /\ SrcId(CallInv(closeCalls[1]), k) \notin armed
            /\ SrcId(CallInv(closeCalls[1]), k) \notin chanOpen

\* a stop or a start over a running child with both streams open
C17_Witness ==
  /\ lastEmit = NoEmit
  /\ CallRanks = 1..8

\* text occurs in msg
Contains(msg, text) ==
  \E i \in 1..(Len(msg) + 1) :
    /\ i + Len(text) - 1 <= Len(msg)
    /\ SubSeq(msg, i, i + Len(text) - 1) = text

\* C18: with a non-zero exit status the generic message is used only when
\* the stderr text without its trailing white space is empty; a text that
\* is not empty then, even of one character, is carried by the message.
C18_GenericOnlyWhenNoText ==
  (JoinEmitted /\ lastEmit.status # 0) =>
    /\ lastEmit.error.message = MsgGeneric => RTrim(lastEmit.stderr) = << >>
    /\ RTrim(lastEmit.stderr) # << >> =>
         Contains(lastEmit.error.message, RTrim(lastEmit.stderr))

\* the stderr text is the one character "x" and the message is the generic one
C18_SingleCharIsGeneric ==
  /\ JoinEmitted
  /\ lastEmit.status # 0
  /\ lastEmit.stderr = <<"x">>
  /\ lastEmit.error.message = MsgGeneric

\* C19: a read that reports G_IO_STATUS_AGAIN changes nothing: no field of
\* the reader, no source, no channel, no process, nothing read or written,
\* no signal recorded, and no call of close_process and no emission.
C19_AgainChangesNothing ==
  [][quiet' = "again" =>
       /\ UNCHANGED <<privVars, nStart, proc, waitStatus, armed, chanOpen,
                      written, outData, errData, outLeft, errLeft, sink,
                      overlap, emitted, torn, late, recorded>>
       /\ lastEmit' = NoEmit
       /\ closeCalls' = << >>
       /\ signalled' = {}
       /\ start_ret' = "none"]_vars

\* a read of stdout finds nothing ready after stderr was read in part and
\* the child's exit was handled
C19_Witness ==
  /\ quiet = "again"
  /\ error_string # << >>
  /\ errLeft # << >>
  /\ WATCH \in Range(recorded)
  /\ child_exit_code # 0

\* the invocation the reader holds before a step is held after it
StillRunning == has_child /\ has_child' /\ nStart' = nStart

\* C20: while an invocation runs, the error string changes only by the
\* stderr callback appending the chunk it has read, so it is the part of
\* the child's stderr read so far: a step that changes it is a read of n
\* bytes by the stderr callback and shows nothing of the stdout callback or
\* the exit handler (no write, no signal recorded, child_pid and
\* child_exit_code as before); and a step that writes to the standard
\* output is a read of the stdout callback, which leaves the error string
\* and the unread stderr text as they are.
C20_ErrorStringIsStderrPrefix ==
  [][/\ has_child' => error_string' \o errLeft' = errData'
     /\ (StillRunning /\ error_string' # error_string) =>
          LET n == Len(error_string') - Len(error_string)
          IN /\ n \in 1..Len(errLeft)
             /\ error_string' = error_string \o SubSeq(errLeft, 1, n)
             /\ errLeft' = SubSeq(errLeft, n + 1, Len(errLeft))
             /\ st' = Forget(git_reader_on_child_stderr(
                                Pre, child_stderr_source,
                                "G_IO_STATUS_NORMAL", n, "none"))
             /\ sink' = sink
             /\ outLeft' = outLeft
             /\ recorded' = recorded
             /\ child_pid' = child_pid
             /\ child_exit_code' = child_exit_code
     /\ (StillRunning /\ sink' # sink) =>
          LET m == Len(outLeft) - Len(outLeft')
          IN /\ m \in 1..Len(outLeft)
             /\ st' = Forget(git_reader_on_child_stdout(
                                Pre, child_stdout_source,
                                "G_IO_STATUS_NORMAL", m, "none"))
             /\ error_string' = error_string
             /\ errLeft' = errLeft
    ]_vars

\* the stderr text is read in two chunks with a chunk of stdout in between
C20_Witness ==
  /\ has_child
  /\ error_string = <<"x", " ">>
  /\ errLeft = << >>
  /\ Len(sink) = 3
  /\ outLeft # << >>
  /\ recorded = <<WATCH>>

\* C21: each of the three signals is recorded at most once for an
\* invocation: a stream that has reported end-of-stream has its watch
\* detached and its source id cleared, and the exit handler has run at
\* most once, after which the child watch is detached.
C21_SignalsRecordedOnce ==
  /\ Len(recorded) <= 3
  /\ \A i, j \in 1..Len(recorded) : i # j => recorded[i] # recorded[j]
  /\ \A i \in 1..Len(lastEmit.recorded), j \in 1..Len(lastEmit.recorded) :
       i # j => lastEmit.recorded[i] # lastEmit.recorded[j]
  /\ has_child =>
       /\ STDOUT \in Range(recorded) <=> child_stdout_source = 0
       /\ STDERR \in Range(recorded) <=> child_stderr_source = 0
       /\ WATCH \in Range(recorded) <=> child_pid = 0
       /\ \A k \in Range(recorded) : SrcId(nStart, k) \notin armed

\* two signals are recorded and the third is awaited
C21_Witness ==
  /\ has_child
  /\ recorded = <<STDERR, WATCH>>
  /\ SrcId(nStart, STDOUT) \in armed
  /\ outLeft = << >>
  /\ written

\* C22: when the handler of "completed" is called, on the join and on the
\* read-error path, the reader has let the invocation go: has_child is
\* FALSE and child_pid 0, the child is reaped, both channels are shut down
\* and no source of the invocation is attached but the one whose callback
\* is running; a stop from the handler therefore does nothing.
C22_ReleasedBeforeHandler ==
  lastEmit # NoEmit =>
    /\ ~lastEmit.held
    /\ lastEmit.pid = 0
    /\ lastEmit.child \in {"reaped", "collected"}
    /\ lastEmit.open = {}
    /\ lastEmit.armed = IF lastEmit.path = "join" THEN {lastEmit.by} ELSE {}
    /\ lastEmit.inv \notin TornInvs
    /\ \A k \in Signals : SrcId(lastEmit.inv, k) \notin armed
    /\ \A i \in 1..Len(closeCalls) : CallInv(closeCalls[i]) = lastEmit.inv
    /\ ~has_child => git_reader_dispose(st) = st

\* a join made by the exit handler, whose handler has not started again
C22_Witness ==
  /\ JoinEmitted
  /\ lastEmit.by = WATCH
  /\ lastEmit.armed = {WATCH}
  /\ ~has_child

\* the same on the read-error path
C22_WitnessIoError ==
  /\ lastEmit.path = "ioerror"
  /\ lastEmit.armed = {}
  /\ ~has_child

\* C23: a forced teardown returns: the blocking wait is entered only after
\* the non-blocking wait has returned 0 for the child and the child was
\* sent SIGTERM, it returns the pid of that child, which has exited and is
\* reaped by it, and the reader holds no invocation when close_process
\* returns.
C23_BlockingWaitReturns ==
  /\ \A i \in CallsOf("waitpid") :
       /\ i > 2
       /\ closeCalls[i - 1] =
            [op |-> "kill", arg |-> closeCalls[i].arg, ret |-> 0]
       /\ closeCalls[i - 2] =
            [op |-> "waitpid_WNOHANG", arg |-> closeCalls[i].arg, ret |-> 0]
       /\ closeCalls[i].ret = closeCalls[i].arg
       /\ proc[closeCalls[i].arg] = "reaped"
  /\ closeCalls # << >> =>
       /\ has_child => (start_ret = "TRUE" /\ nStart # CallInv(closeCalls[1]))
       /\ proc[CallInv(closeCalls[1])] = "reaped"

\* the teardown at the head of a start kills a running child, waits for
\* it, and the start goes on to spawn
C23_Witness ==
  /\ CallsOf("waitpid") # {}
  /\ start_ret = "TRUE"
  /\ lastEmit = NoEmit

\* C24: whenever the reader holds no invocation (before a start, after a
\* completion, a stop, a read error, a failed start) no source of it is
\* attached, no channel of it is open, child_pid is 0 and it has no child
\* that is not reaped.
C24_IdleHoldsNothing ==
  ~has_child =>
    /\ armed = {}
    /\ chanOpen = {}
    /\ child_pid = 0
    /\ Unreaped(st) = {}
    /\ \A p \in Invs : proc[p] \in {"none", "reaped"}

\* a stop has just killed a running child whose streams were open
C24_Witness ==
  /\ ~has_child
  /\ <<nStart, "stop">> \in torn
  /\ CallRanks = 1..8

\* the other ways to hold nothing: after a join, after a read error, after
\* a failed start over a running invocation
C24_WitnessJoin == ~has_child /\ JoinEmitted
C24_WitnessReadError == ~has_child /\ read_error # 0
C24_WitnessFailedStart ==
  ~has_child /\ start_ret = "FALSE" /\ closeCalls # << >>

\* C25: the result of an invocation comes from its own child only: the
\* error string is empty when the invocation starts and holds bytes of its
\* own stderr only, the exit code read at the join is the wait status of
\* its own child, and the error emitted is the one that status and that
\* stderr text give, whatever an earlier invocation has left in the fields.
C25_ResultIsOwn ==
  /\ start_ret = "TRUE" => error_string = << >>
  /\ has_child =>
       /\ error_string \o errLeft = errData
       /\ WATCH \in Range(recorded) => child_exit_code = waitStatus[nStart]
  /\ JoinEmitted =>
       /\ lastEmit.status = W_EXITCODE(0) => lastEmit.error = NoError
       /\ lastEmit.status # W_EXITCODE(0) =>
            lastEmit.error = ExitError(lastEmit.stderr).error

\* the second invocation is about to complete with exit status 0 and no
\* stderr text while child_exit_code still holds the first one's status
C25_Witness ==
  /\ has_child
  /\ nStart = 2
  /\ emitted[1] = 1
  /\ child_exit_code # 0
  /\ waitStatus[2] = W_EXITCODE(0)
  /\ proc[2] = "collected"
  /\ Range(recorded) = {STDOUT, STDERR}
  /\ errData = << >>

\* and it completes with no error
C25_WitnessCompleted ==
  /\ JoinEmitted
  /\ lastEmit.inv = 2
  /\ emitted[1] = 1
  /\ lastEmit.error = NoError

\* the callback that has just returned emitted "completed" and the handler
\* started a new invocation whose spawn succeeded
RestartedInHandler == lastEmit # NoEmit /\ start_ret = "TRUE"

\* C26: a start called from the completion handler leaves the new
\* invocation intact when the emitting callback of the old one returns: the
\* reader holds the new child with its pid, its three watches attached and
\* its channels open, nothing of the old invocation stays attached, the old
\* invocation has emitted once and never emits again, and the new one
\* (never the first invocation of the reader) emits "completed" once
\* unless a stop or a further start tears it down.
C26_RestartInHandler ==
  /\ [](RestartedInHandler =>
         /\ has_child
         /\ nStart # lastEmit.inv
         /\ child_pid = nStart
         /\ child_watch_source = SrcId(nStart, WATCH)
         /\ child_stdout_source = SrcId(nStart, STDOUT)
         /\ child_stderr_source = SrcId(nStart, STDERR)
         /\ armed = {SrcId(nStart, k) : k \in Signals}
         /\ chanOpen = {SrcId(nStart, k) : k \in {STDOUT, STDERR}}
         /\ proc[nStart] \in {"running", "zombie"}
         /\ recorded = << >>
         /\ emitted[lastEmit.inv] = 1
         /\ emitted[nStart] = 0)
  /\ [](\A i \in Invs : emitted[i] <= 1)
  /\ \A i \in Invs \ {1} :
       (RestartedInHandler /\ nStart = i)
         ~> (emitted[i] = 1 \/ i \in TornInvs)

\* the last signal of the join ran the handler, which started again
C26_Witness ==
  /\ RestartedInHandler
  /\ JoinEmitted
  /\ has_child
  /\ child_pid = nStart

\* the handler of a read error started again
C26_WitnessIoError ==
  /\ RestartedInHandler
  /\ lastEmit.path = "ioerror"
  /\ has_child

\* two invocations have completed, neither of them torn down
C26_WitnessSecondCompleted ==
  /\ lastEmit.inv = 2
  /\ emitted[1] = 1
  /\ emitted[2] = 1
  /\ torn = {}

\* the failed starts that were called while the invocation before them was
\* running
FailedOverRunning == {i \in FailedStarts : <<i - 1, "start">> \in torn}

\* C27: a start whose spawn fails has torn down the invocation that was
\* running: when it returns the reader holds nothing, the previous child
\* was killed if it still ran and is reaped, its sources are detached and
\* its channels shut down, and neither the previous invocation nor the
\* failed one ever emits "completed" or has a callback run.
C27_FailedStartTearsDown ==
  /\ start_ret = "FALSE" =>
       /\ ~has_child
       /\ child_pid = 0
       /\ armed = {}
       /\ chanOpen = {}
       /\ Unreaped(st) = {}
  /\ (start_ret = "FALSE" /\ nStart \in FailedOverRunning) =>
       /\ lastEmit = NoEmit
       /\ {3, 4} \subseteq CallRanks
       /\ \A i \in 1..Len(closeCalls) : CallInv(closeCalls[i]) = nStart - 1
       /\ \A i \in CallsOf("waitpid_WNOHANG") :
            closeCalls[i].ret = 0 => CallsOf("kill") # {}
  /\ \A i \in FailedOverRunning :
       /\ proc[i - 1] = "reaped"
       /\ emitted[i - 1] = 0
       /\ emitted[i] = 0
       /\ (i - 1) \notin LateInvs
       /\ i \notin LateInvs
       /\ \A k \in Signals : SrcId(i - 1, k) \notin armed
       /\ \A k \in {STDOUT, STDERR} : SrcId(i - 1, k) \notin chanOpen

\* a failed start has just killed the running child of the invocation
\* before it
C27_Witness ==
  /\ start_ret = "FALSE"
  /\ nStart \in FailedOverRunning
  /\ CallsOf("kill") # {}
  /\ ~has_child

\* a later step after such a failed start
C27_WitnessLater ==
  /\ 2 \in FailedOverRunning
  /\ start_ret = "none"
  /\ emitted[1] = 0

\* C28 as stated: when the callback that emitted at the join has returned,
\* the error string is empty.
C28_BufferFreedAtCompletion == JoinEmitted => error_string = << >>

\* C28: the join does not free or empty the error string; what is freed
\* after the emission is the GError. When the handler has returned the
\* error string holds what the completion step left in it, the stderr text
\* of the invocation, cut by the error assembly when the exit status is not
\* zero, and it keeps it while the reader is idle, over stops and failed
\* starts, until the next start that spawns empties it.
C28_BufferKeptUntilStart ==
  /\ []((JoinEmitted /\ start_ret # "TRUE") =>
          error_string = IF lastEmit.status # 0
                           THEN ExitError(lastEmit.stderr).error_string
                           ELSE lastEmit.stderr)
  /\ [](start_ret = "TRUE" => error_string = << >>)
  /\ [][(~has_child /\ start_ret' # "TRUE") =>
          error_string' = error_string]_vars

\* the join of a child that exited with status 0 has left its stderr text
\* in the error string
C28_Witness ==
  /\ JoinEmitted
  /\ ~has_child
  /\ start_ret = "none"
  /\ lastEmit.status = W_EXITCODE(0)
  /\ error_string # << >>
  /\ error_string = lastEmit.stderr

\* the text is still there after a start that failed on the idle reader
C28_WitnessFailedStart ==
  /\ lastEmit = NoEmit
  /\ start_ret = "FALSE"
  /\ closeCalls = << >>
  /\ emitted[1] = 1
  /\ error_string # << >>

\* and the next start that spawns has emptied it
C28_WitnessNextStart ==
  /\ lastEmit = NoEmit
  /\ start_ret = "TRUE"
  /\ emitted[1] = 1
  /\ torn = {}
  /\ error_string = << >>

=============================================================================
